---- MODULE Spec2Model ----
(***************************************************************************)
(* QuadGraph (src/index.js): a graph of nodes with four connection slots   *)
(* each, a pool of values keyed by node identity, and a rotation-aware     *)
(* cursor that walks the graph in relative directions.                     *)
(*                                                                         *)
(* JavaScript values are modelled as follows.                              *)
(*   - undefined / NaN / a missing Map entry : the integer -1.             *)
(*   - a slot holding null                   : the record null.            *)
(*   - a slot holding {num, side}            : the record [num, side].     *)
(*   - this.nodes                            : a function on 0..length-1.  *)
(*   - the identity of the array pushed at position i : i itself (add()    *)
(*     evaluates its default parameter afresh on every call, so each node  *)
(*     is its own array and no two positions share one).                   *)
(*   - a returned boolean / undefined / thrown TypeError : a string.       *)
(***************************************************************************)
EXTENDS Integers, FiniteSets, Sequences, TLC

\* ---------------------------------------------------------------- bounds
\* MaxNodes  : nodes a graph may hold
\* MaxLinks  : link/unlink calls of the client that only wires (Spec)
\* WalkLinks : link/unlink calls of the client that wires, then walks
\* NumValues : distinct payloads
\* MaxCalls  : calls of the client that stores values (SpecValue)
\* GridDim   : largest width and height given to QuadGraph.grid (SpecGrid)
MaxNodes == 2
MaxLinks == 2
WalkLinks == 1
NumValues == 2
MaxCalls == 4
GridDim == 2

\* ------------------------------------------------------ program constants
NumSides == 4
DemoNodes == 4
DemoSteps == 10

undefined == -1
null == [num |-> undefined, side |-> undefined]

Sides == 0 .. (NumSides - 1)
Indices == 0 .. (MaxNodes - 1)
Values == 1 .. NumValues

emptyNode == [s \in Sides |-> null]

\* nodes, valuePool : the fields of the QuadGraph instance
\* cursor           : the object the caller holds in `node` (line 227, 232)
\* op, ret          : the method called last and what it returned
\* lastPut          : the latest write through a cursor's value setter that
\*                    no later write to the same key has replaced
\* links            : the number of link and unlink calls made so far
\* calls            : the number of value and cursor calls counted so far
\* pc, loop_i, direction : the position and the locals (i, direction) of
\*                    the script at the bottom of the file (lines 198-235)
VARIABLES nodes, valuePool, cursor, op, ret, lastPut, links, calls, pc,
          loop_i, direction

vars == <<nodes, valuePool, cursor, op, ret, lastPut, links, calls, pc,
          loop_i, direction>>

script == <<pc, loop_i, direction>>

\* ------------------------------------------------------------- QuadGraph

length == Cardinality(DOMAIN nodes)

\* this.nodes[index]: the identity of the array at that position, or
\* undefined when the position is not populated.
nodeAt(ns, index) == IF index \in DOMAIN ns THEN index ELSE undefined

\* Map.prototype.get / Map.prototype.set on the value pool.
poolGet(pool, key) == IF key \in DOMAIN pool THEN pool[key] ELSE undefined

poolSet(pool, key, value) ==
    [k \in (DOMAIN pool) \cup {key} |-> IF k = key THEN value ELSE pool[k]]

\* this.nodes.push(node)
push(ns, node) ==
    LET n == Cardinality(DOMAIN ns)
    IN  [i \in 0 .. n |-> IF i < n THEN ns[i] ELSE node]

\* An object is truthy, null is falsy.
truthy(connection) == connection # null

\* connection?.num and connection?.side
optNum(connection) == IF connection = null THEN undefined ELSE connection.num

optSide(connection) == IF connection = null THEN undefined ELSE connection.side

\* Assignment nodes[index][side] = connection.
store(ns, index, side, connection) ==
    [ns EXCEPT ![index] = [@ EXCEPT ![side] = connection]]

conn(index, side) == [num |-> index, side |-> side]

result(ns, r) == [nodes |-> ns, ret |-> r]

\* link with the second connection's side copied from the first
\* (side: secondSide written twice).
linkSameSide(ns, firstIndex, firstSide, secondIndex, secondSide) ==
    IF nodeAt(ns, firstIndex) = undefined THEN result(ns, "TypeError")
    ELSE IF truthy(ns[firstIndex][firstSide]) THEN result(ns, "false")
    ELSE IF nodeAt(ns, secondIndex) = undefined THEN result(ns, "TypeError")
    ELSE IF truthy(ns[secondIndex][secondSide]) THEN result(ns, "false")
    ELSE result(store(store(ns, firstIndex, firstSide,
                            conn(secondIndex, secondSide)),
                      secondIndex, secondSide, conn(firstIndex, secondSide)),
                "undefined")

\* link that looks only at the first slot before writing.
linkFirstSlotOnly(ns, firstIndex, firstSide, secondIndex, secondSide) ==
    IF nodeAt(ns, firstIndex) = undefined THEN result(ns, "TypeError")
    ELSE IF truthy(ns[firstIndex][firstSide]) THEN result(ns, "false")
    ELSE IF nodeAt(ns, secondIndex) = undefined THEN result(ns, "TypeError")
    ELSE result(store(store(ns, firstIndex, firstSide,
                            conn(secondIndex, secondSide)),
                      secondIndex, secondSide, conn(firstIndex, firstSide)),
                "undefined")

\* link that replaces the first node by a new array holding only the new
\* connection.
linkNewArray(ns, firstIndex, firstSide, secondIndex, secondSide) ==
    IF nodeAt(ns, firstIndex) = undefined THEN result(ns, "TypeError")
    ELSE IF truthy(ns[firstIndex][firstSide]) THEN result(ns, "false")
    ELSE IF nodeAt(ns, secondIndex) = undefined THEN result(ns, "TypeError")
    ELSE IF truthy(ns[secondIndex][secondSide]) THEN result(ns, "false")
    ELSE result(store(store([ns EXCEPT ![firstIndex] = emptyNode],
                            firstIndex, firstSide,
                            conn(secondIndex, secondSide)),
                      secondIndex, secondSide, conn(firstIndex, firstSide)),
                "undefined")

\* link(firstIndex, firstSide, secondIndex, secondSide): the nodes array
\* after the call and what the call returned.  Reading a slot of a
\* position that is not populated throws; `||` does not evaluate its right
\* operand when the left one is truthy.  The success path falls off the
\* end of the function.
link(ns, firstIndex, firstSide, secondIndex, secondSide) ==
    IF nodeAt(ns, firstIndex) = undefined THEN result(ns, "TypeError")
    ELSE IF truthy(ns[firstIndex][firstSide]) THEN result(ns, "false")
    ELSE IF nodeAt(ns, secondIndex) = undefined THEN result(ns, "TypeError")
    ELSE IF truthy(ns[secondIndex][secondSide]) THEN result(ns, "false")
    ELSE result(store(store(ns, firstIndex, firstSide,
                            conn(secondIndex, secondSide)),
                      secondIndex, secondSide, conn(firstIndex, firstSide)),
                "undefined")

\* unlink that clears the first slot only.
unlinkFirstOnly(ns, firstIndex, firstSide, secondIndex, secondSide) ==
    IF nodeAt(ns, firstIndex) = undefined THEN result(ns, "TypeError")
    ELSE IF optNum(ns[firstIndex][firstSide]) # secondIndex
         THEN result(ns, "false")
    ELSE IF nodeAt(ns, secondIndex) = undefined THEN result(ns, "TypeError")
    ELSE IF optNum(ns[secondIndex][secondSide]) # firstIndex
         THEN result(ns, "false")
    ELSE result(store(ns, firstIndex, firstSide, null), "undefined")

\* unlink(firstIndex, firstSide, secondIndex, secondSide): only the num
\* field of each slot is compared.
unlink(ns, firstIndex, firstSide, secondIndex, secondSide) ==
    IF nodeAt(ns, firstIndex) = undefined THEN result(ns, "TypeError")
    ELSE IF optNum(ns[firstIndex][firstSide]) # secondIndex
         THEN result(ns, "false")
    ELSE IF nodeAt(ns, secondIndex) = undefined THEN result(ns, "TypeError")
    ELSE IF optNum(ns[secondIndex][secondSide]) # firstIndex
         THEN result(ns, "false")
    ELSE result(store(store(ns, firstIndex, firstSide, null),
                      secondIndex, secondSide, null),
                "undefined")

\* add(node = [null, null, null, null], value); the key of the new entry
\* is the array just pushed.
add(ns, pool, node, value) ==
    [nodes |-> push(ns, node),
     valuePool |-> IF value # undefined
                   THEN poolSet(pool, Cardinality(DOMAIN ns), value)
                   ELSE pool]

\* populate(num): num calls of add().
RECURSIVE populate(_, _)
populate(ns, num) ==
    IF num <= 0 THEN ns
    ELSE populate(add(ns, <<>>, emptyNode, undefined).nodes, num - 1)

\* setValue one position off.
setValueOffByOne(ns, pool, index, value) ==
    poolSet(pool, nodeAt(ns, index + 1), value)

\* setValue(index, value): the key is whatever this.nodes[index] is.
setValue(ns, pool, index, value) == poolSet(pool, nodeAt(ns, index), value)

\* grid with the sides of the two link calls exchanged.
RECURSIVE gridLoopMirrored(_, _, _, _, _)
gridLoopMirrored(ns, i, j, width, height) ==
    IF i >= width THEN ns
    ELSE IF j >= height THEN gridLoopMirrored(ns, i + 1, 0, width, height)
    ELSE LET index == i + j * width
             horizontal == IF i > 0 THEN link(ns, index, 1, index - 1, 3).nodes
                           ELSE ns
             vertical == IF j > 0
                         THEN link(horizontal, index, 0, index - width, 2).nodes
                         ELSE horizontal
         IN  gridLoopMirrored(vertical, i, j + 1, width, height)

\* grid that links every node but the first to the node before it, the
\* first node of a row included.
RECURSIVE gridLoopWraps(_, _, _, _, _)
gridLoopWraps(ns, i, j, width, height) ==
    IF i >= width THEN ns
    ELSE IF j >= height THEN gridLoopWraps(ns, i + 1, 0, width, height)
    ELSE LET index == i + j * width
             horizontal == IF index > 0
                           THEN link(ns, index, 3, index - 1, 1).nodes
                           ELSE ns
             vertical == IF j > 0
                         THEN link(horizontal, index, 2, index - width, 0).nodes
                         ELSE horizontal
         IN  gridLoopWraps(vertical, i, j + 1, width, height)

\* The two nested loops of grid(width, height), from iteration (i, j) on:
\* i runs over the width, j over the height, and what link returns is
\* not looked at.
RECURSIVE gridLoop(_, _, _, _, _)
gridLoop(ns, i, j, width, height) ==
    IF i >= width THEN ns
    ELSE IF j >= height THEN gridLoop(ns, i + 1, 0, width, height)
    ELSE LET index == i + j * width
             horizontal == IF i > 0 THEN link(ns, index, 3, index - 1, 1).nodes
                           ELSE ns
             vertical == IF j > 0
                         THEN link(horizontal, index, 2, index - width, 0).nodes
                         ELSE horizontal
         IN  gridLoop(vertical, i, j + 1, width, height)

\* What the link calls of the two loops return, from iteration (i, j) on.
RECURSIVE gridReturns(_, _, _, _, _)
gridReturns(ns, i, j, width, height) ==
    IF i >= width THEN {}
    ELSE IF j >= height THEN gridReturns(ns, i + 1, 0, width, height)
    ELSE LET index == i + j * width
             first == link(ns, index, 3, index - 1, 1)
             horizontal == IF i > 0 THEN first.nodes ELSE ns
             second == link(horizontal, index, 2, index - width, 0)
             vertical == IF j > 0 THEN second.nodes ELSE horizontal
         IN  (IF i > 0 THEN {first.ret} ELSE {})
                 \cup (IF j > 0 THEN {second.ret} ELSE {})
                 \cup gridReturns(vertical, i, j + 1, width, height)

\* static grid(width, height)
grid(width, height) ==
    gridLoop(populate([k \in {} |-> emptyNode], width * height), 0, 0,
             width, height)

\* ---------------------------------------------------------------- cursor

nullCursor == [index |-> undefined, node |-> undefined, turn |-> undefined]

\* build(index, turn = 0): the object res, without its methods.
build(ns, index, turn) ==
    [index |-> index, node |-> nodeAt(ns, index), turn |-> turn]

\* The new turn without the half turn of crossing a link.
newTurnNoFlip(connection, i) ==
    IF optSide(connection) = undefined THEN undefined
    ELSE (optSide(connection) - i + 4) % NumSides

\* The new turn with the direction added instead of subtracted.
newTurnAddsDirection(connection, i) ==
    IF optSide(connection) = undefined THEN undefined
    ELSE (optSide(connection) + 2 + i + 4) % NumSides

\* The new turn with a quarter turn in place of the half turn.
newTurnQuarter(connection, i) ==
    IF optSide(connection) = undefined THEN undefined
    ELSE (optSide(connection) + 1 - i + 4) % NumSides

\* The new turn without the final % 4.
newTurnNoWrap(connection, i) ==
    IF optSide(connection) = undefined THEN undefined
    ELSE optSide(connection) + 2 - i + 4

\* connection?.side + 2 - i + 4 is NaN when the slot is empty.
newTurnOf(connection, i) ==
    IF optSide(connection) = undefined THEN undefined
    ELSE (optSide(connection) + 2 - i + 4) % NumSides

\* next that reads slot i, whatever the cursor's turn.
nextIgnoresTurn(ns, res, i) ==
    LET connection == ns[res.node][i % NumSides]
        newIndex == optNum(connection)
        newTurn == newTurnOf(connection, i)
    IN  IF nodeAt(ns, newIndex) # undefined
        THEN build(ns, newIndex, newTurn)
        ELSE nullCursor

\* res.next(i); the caller guarantees res.node is an array.
next(ns, res, i) ==
    LET connection == ns[res.node][(i + res.turn) % NumSides]
        newIndex == optNum(connection)
        newTurn == newTurnOf(connection, i)
    IN  IF nodeAt(ns, newIndex) # undefined
        THEN build(ns, newIndex, newTurn)
        ELSE nullCursor

\* A setter keyed by the cursor object instead of its node: a key no node
\* has.
putValueOnCursor(pool, res, value) ==
    poolSet(pool, undefined - 1 - res.index * NumSides - res.turn, value)

\* get value() / set value(value)
getValue(pool, res) == poolGet(pool, res.node)

putValue(pool, res, value) == poolSet(pool, res.node, value)

right(ns, res) == next(ns, res, 0)

down(ns, res) == next(ns, res, 1)

left(ns, res) == next(ns, res, 2)

up(ns, res) == next(ns, res, 3)

\* ------------------------------------------------------- the API, called
\* by a client

emptyMap == [k \in {} |-> undefined]

noPut == [index |-> undefined, turn |-> undefined, value |-> undefined]

\* constructor(nodes): new QuadGraph()
Init ==
    /\ nodes = [k \in {} |-> emptyNode]
    /\ valuePool = emptyMap
    /\ cursor = nullCursor
    /\ op = "new"
    /\ ret = "undefined"
    /\ lastPut = noPut
    /\ links = 0
    /\ calls = 0
    /\ pc = "api"
    /\ loop_i = 0
    /\ direction = undefined

Called(name) ==
    /\ pc = "api"
    /\ op' = name
    /\ UNCHANGED script

\* A write to `key` that does not come from the remembered cursor write
\* replaces it.
forget(key) ==
    IF lastPut # noPut /\ nodeAt(nodes, lastPut.index) = key
    THEN noPut ELSE lastPut

Add(node, value) ==
    /\ Called("add")
    /\ length < MaxNodes
    /\ LET r == add(nodes, valuePool, node, value)
       IN  nodes' = r.nodes /\ valuePool' = r.valuePool
    /\ ret' = "node"
    /\ UNCHANGED <<cursor, lastPut>>

\* graph = QuadGraph.grid(width, height), in place of new QuadGraph()
GridCall(width, height) ==
    /\ Called("grid")
    /\ op = "new"
    /\ nodes' = grid(width, height)
    /\ ret' = "graph"
    /\ UNCHANGED <<valuePool, cursor, lastPut, links>>

\* The same call, for the clients that keep to MaxNodes nodes.
Grid(width, height) ==
    /\ width * height <= MaxNodes
    /\ GridCall(width, height)

Populate(num) ==
    /\ Called("populate")
    /\ length + num <= MaxNodes
    /\ nodes' = populate(nodes, num)
    /\ ret' = "undefined"
    /\ UNCHANGED <<valuePool, cursor, lastPut, links>>

SetValue(index, value) ==
    /\ Called("setValue")
    /\ valuePool' = setValue(nodes, valuePool, index, value)
    /\ lastPut' = forget(nodeAt(nodes, index))
    /\ ret' = "undefined"
    /\ UNCHANGED <<nodes, cursor, links>>

Link(firstIndex, firstSide, secondIndex, secondSide) ==
    /\ Called("link")
    /\ LET r == link(nodes, firstIndex, firstSide, secondIndex, secondSide)
       IN  nodes' = r.nodes /\ ret' = r.ret
    /\ links' = links + 1
    /\ UNCHANGED <<valuePool, cursor, lastPut>>

Unlink(firstIndex, firstSide, secondIndex, secondSide) ==
    /\ Called("unlink")
    /\ LET r == unlink(nodes, firstIndex, firstSide, secondIndex, secondSide)
       IN  nodes' = r.nodes /\ ret' = r.ret
    /\ links' = links + 1
    /\ UNCHANGED <<valuePool, cursor, lastPut>>

\* node = graph.build(index, turn)
Build(index, turn) ==
    /\ Called("build")
    /\ cursor' = build(nodes, index, turn)
    /\ ret' = "cursor"
    /\ UNCHANGED <<nodes, valuePool, lastPut, links>>

\* The caller replaces its cursor by the one a navigation call returns;
\* on a cursor whose node is undefined the call throws (res.node[...])
\* and the caller keeps what it had.
Walk(name, d) ==
    /\ Called(name)
    /\ cursor # nullCursor
    /\ IF cursor.node = undefined
       THEN ret' = "TypeError" /\ UNCHANGED cursor
       ELSE LET found == CASE name = "next" -> next(nodes, cursor, d)
                           [] name = "right" -> right(nodes, cursor)
                           [] name = "down" -> down(nodes, cursor)
                           [] name = "left" -> left(nodes, cursor)
                           [] name = "up" -> up(nodes, cursor)
            IN  /\ cursor' = found
                /\ ret' = IF found = nullCursor THEN "null" ELSE "cursor"
    /\ UNCHANGED <<nodes, valuePool, lastPut, links>>

\* A navigation call that writes the cursor it is called on: the receiver
\* takes the index, node and turn of what it found.
LookMoves(name, d) ==
    /\ Called(name)
    /\ cursor # nullCursor
    /\ cursor.node # undefined
    /\ LET found == next(nodes, cursor, d)
       IN  /\ cursor' = IF found = nullCursor THEN cursor ELSE found
           /\ ret' = IF found = nullCursor THEN "null" ELSE "cursor"
    /\ UNCHANGED <<nodes, valuePool, lastPut, links>>

\* The same calls made by a caller that keeps the cursor it called them
\* on (var other = node.next(i)): the receiver res is only read, by
\* res.node and res.turn.
Look(name, d) ==
    /\ Called(name)
    /\ cursor # nullCursor
    /\ IF cursor.node = undefined
       THEN ret' = "TypeError"
       ELSE LET found == CASE name = "next" -> next(nodes, cursor, d)
                           [] name = "right" -> right(nodes, cursor)
                           [] name = "down" -> down(nodes, cursor)
                           [] name = "left" -> left(nodes, cursor)
                           [] name = "up" -> up(nodes, cursor)
            IN  ret' = IF found = nullCursor THEN "null" ELSE "cursor"
    /\ UNCHANGED <<nodes, valuePool, cursor, lastPut, links>>

\* node = node.next(i)
Step(d) == Walk("next", d)

\* node = node.right, node.down, node.left, node.up
Right == Walk("right", 0)

Down == Walk("down", 1)

Left == Walk("left", 2)

Up == Walk("up", 3)

\* node.value = value
PutValue(value) ==
    /\ Called("value=")
    /\ cursor # nullCursor
    /\ valuePool' = putValue(valuePool, cursor, value)
    /\ lastPut' = IF cursor.node = undefined THEN forget(undefined)
                  ELSE [index |-> cursor.index, turn |-> cursor.turn,
                        value |-> value]
    /\ ret' = "undefined"
    /\ UNCHANGED <<nodes, cursor, links>>

\* ------------------------------------------ Spec: a client that wires

Grow ==
    /\ \E num \in 1 .. MaxNodes : Populate(num)
    /\ UNCHANGED calls

LinkAny ==
    /\ \E a \in Indices, sa \in Sides, b \in Indices, sb \in Sides :
          Link(a, sa, b, sb)
    /\ UNCHANGED calls

UnlinkAny ==
    /\ \E a \in Indices, sa \in Sides, b \in Indices, sb \in Sides :
          Unlink(a, sa, b, sb)
    /\ UNCHANGED calls

Next ==
    \/ Grow
    \/ links < MaxLinks /\ LinkAny
    \/ links < MaxLinks /\ UnlinkAny

Spec == Init /\ [][Next]_vars

\* The payload "node k" is written k + 1.
demoValue(k) == k + 1

\* ------------------- SpecWalk: a client that wires, then builds a cursor
\* and walks (the order of the script at the bottom of the file)

Wiring == cursor = nullCursor

BuildAny ==
    /\ \E index \in Indices, turn \in Sides : Build(index, turn)
    /\ UNCHANGED calls

StepAny ==
    /\ \E d \in Sides : Step(d)
    /\ UNCHANGED calls

Accessor ==
    /\ Right \/ Down \/ Left \/ Up
    /\ UNCHANGED calls

\* graph.setValue(k, "node k") on the populated nodes in the order of
\* their indices, as lines 222-225 do
Label ==
    /\ \E index \in DOMAIN nodes :
          /\ index = Cardinality(DOMAIN valuePool)
          /\ SetValue(index, demoValue(index))
    /\ UNCHANGED calls

NextWalk ==
    \/ Grow
    \/ Label
    \/ Wiring /\ links < WalkLinks /\ LinkAny
    \/ Wiring /\ links < WalkLinks /\ UnlinkAny
    \/ BuildAny
    \/ StepAny
    \/ Accessor

SpecWalk == Init /\ [][NextWalk]_vars

\* ------------- SpecAdd: a client that adds node arrays of its own, each
\* wired in advance to the position the next node will take, then walks

forwardNode(side, targetSide) ==
    [emptyNode EXCEPT ![side] = conn(length + 1, targetSide)]

AddNode ==
    /\ \E side \in Sides, targetSide \in Sides :
          Add(forwardNode(side, targetSide), undefined)
    /\ UNCHANGED <<links, calls>>

NextAdd ==
    \/ Grow
    \/ AddNode
    \/ BuildAny
    \/ StepAny
    \/ Accessor

SpecAdd == Init /\ [][NextAdd]_vars

\* ------------------ SpecValue: a client that wires, then stores and reads
\* values, by index and through cursors

Counted(A) ==
    /\ calls < MaxCalls
    /\ A
    /\ calls' = calls + 1

AddAny ==
    /\ Counted(\E value \in Values \cup {undefined} : Add(emptyNode, value))
    /\ UNCHANGED links

SetValueAny ==
    Counted(\E index \in Indices, value \in Values : SetValue(index, value))

PutValueAny == Counted(\E value \in Values : PutValue(value))

BuildOne == Counted(\E index \in Indices, turn \in Sides : Build(index, turn))

StepOne == Counted(\E d \in Sides : Step(d))

LookOne ==
    Counted(\/ \E d \in Sides : Look("next", d)
            \/ Look("right", 0) \/ Look("down", 1)
            \/ Look("left", 2) \/ Look("up", 3))

GridAny ==
    /\ \E width \in 0 .. MaxNodes, height \in 0 .. MaxNodes : Grid(width, height)
    /\ UNCHANGED calls

NextValue ==
    \/ GridAny
    \/ Grow
    \/ AddAny
    \/ SetValueAny
    \/ PutValueAny
    \/ BuildOne
    \/ StepOne
    \/ LookOne

SpecValue == Init /\ [][NextValue]_vars

\* ------------- SpecGrid: a client that starts from QuadGraph.grid, may
\* add connections by hand while the grid has at most MaxNodes nodes, then
\* builds a cursor and walks

GridAll ==
    /\ \E width \in 0 .. GridDim, height \in 0 .. GridDim :
          GridCall(width, height)
    /\ UNCHANGED calls

\* graph.build(index, turn) at every node of the grid and one past the end
BuildIn ==
    /\ \E index \in 0 .. length, turn \in Sides : Build(index, turn)
    /\ UNCHANGED calls

ByHand == Wiring /\ links < WalkLinks /\ length <= MaxNodes

NextGrid ==
    \/ GridAll
    \/ ByHand /\ LinkAny
    \/ ByHand /\ UnlinkAny
    \/ BuildIn
    \/ StepAny
    \/ Accessor

SpecGrid == Init /\ [][NextGrid]_vars

\* ------------ SpecFrame: a client that adds nodes one at a time, each
\* with its payload ("node k" for the node at index k), and wires them

AddLabelled ==
    /\ Add(emptyNode, demoValue(length))
    /\ UNCHANGED <<links, calls>>

NextFrame ==
    \/ AddLabelled
    \/ links < MaxLinks /\ LinkAny
    \/ links < MaxLinks /\ UnlinkAny

SpecFrame == Init /\ [][NextFrame]_vars

\* ------------------------- SpecDemo: the script at the bottom of the file

\* graph.link(...) of lines 206-219, in order.
demoLinks ==
    << <<0, 0, 1, 2>>, <<1, 0, 2, 2>>, <<0, 1, 2, 3>>, <<2, 1, 0, 3>>,
       <<2, 0, 3, 2>>, <<3, 0, 2, 2>>, <<1, 1, 3, 3>>, <<3, 1, 1, 3>> >>

\* var graph = new QuadGraph([[null, null, null, null], ...])
InitDemo ==
    /\ nodes = [k \in 0 .. (DemoNodes - 1) |-> emptyNode]
    /\ valuePool = emptyMap
    /\ cursor = nullCursor
    /\ op = "new"
    /\ ret = "undefined"
    /\ lastPut = noPut
    /\ links = 0
    /\ calls = 0
    /\ pc = "links"
    /\ loop_i = 0
    /\ direction = undefined

DemoLink ==
    /\ pc = "links"
    /\ LET l == demoLinks[links + 1]
           r == link(nodes, l[1], l[2], l[3], l[4])
       IN  nodes' = r.nodes /\ ret' = r.ret
    /\ op' = "link"
    /\ links' = links + 1
    /\ pc' = IF links' = Len(demoLinks) THEN "values" ELSE "links"
    /\ UNCHANGED <<valuePool, cursor, lastPut, calls, loop_i, direction>>

\* graph.setValue(k, "node k"), lines 222-225
DemoSetValue ==
    /\ pc = "values"
    /\ valuePool' = setValue(nodes, valuePool, calls, demoValue(calls))
    /\ op' = "setValue"
    /\ ret' = "undefined"
    /\ calls' = calls + 1
    /\ pc' = IF calls' = DemoNodes THEN "build" ELSE "values"
    /\ UNCHANGED <<nodes, cursor, lastPut, links, loop_i, direction>>

\* var node = graph.build(0); console.log(node.value)
DemoBuild ==
    /\ pc = "build"
    /\ cursor' = build(nodes, 0, 0)
    /\ op' = "build"
    /\ ret' = "cursor"
    /\ pc' = "loop"
    /\ UNCHANGED <<nodes, valuePool, lastPut, links, calls, loop_i, direction>>

\* One turn of the for loop: node = node.next(direction), then node.value
\* is read, which throws when next returned null.
DemoStep ==
    /\ pc = "loop"
    /\ \E dir \in Sides :
          /\ direction' = dir
          /\ cursor' = next(nodes, cursor, dir)
    /\ op' = "next"
    /\ ret' = IF cursor' = nullCursor THEN "null" ELSE "cursor"
    /\ loop_i' = IF cursor' = nullCursor THEN loop_i ELSE loop_i + 1
    /\ pc' = IF cursor' = nullCursor THEN "crashed"
             ELSE IF loop_i' = DemoSteps THEN "done" ELSE "loop"
    /\ UNCHANGED <<nodes, valuePool, lastPut, links, calls>>

NextDemo ==
    \/ DemoLink
    \/ DemoSetValue
    \/ DemoBuild
    \/ DemoStep

SpecDemo == InitDemo /\ [][NextDemo]_vars

\* =========================================================== properties

populated(index) == index \in DOMAIN nodes

occupied(index, side) == nodes[index][side] # null

\* C1 (Spec).  Symmetry: whenever slot s of node A holds the connection
\* (B, t), B is a node and slot t of node B holds the connection (A, s).
C1_Symmetry ==
    \A a \in DOMAIN nodes, s \in Sides :
        occupied(a, s) =>
            /\ populated(nodes[a][s].num)
            /\ nodes[nodes[a][s].num][nodes[a][s].side] = conn(a, s)

\* C2 (Spec).  A link(a, sa, b, sb) call on populated a and b whose slots
\* (a, sa) and (b, sb) are both empty leaves (a, sa) holding (b, sb) and
\* (b, sb) holding (a, sa); a = b and sa = sb are not excluded.
C2_LinkWritesBoth ==
    [][op' = "link" =>
        \A a \in DOMAIN nodes, sa \in Sides :
            ~occupied(a, sa) =>
                \A b \in DOMAIN nodes, sb \in Sides :
                    (~occupied(b, sb) /\ Link(a, sa, b, sb)) =>
                        /\ nodes'[a][sa] = conn(b, sb)
                        /\ nodes'[b][sb] = conn(a, sa)]_vars

\* Witness of C2: the one link call made so far succeeded and left a slot
\* that names itself (a = b, sa = sb).
C2_Witness ==
    /\ op = "link" /\ ret = "undefined" /\ links = 1
    /\ \E a \in DOMAIN nodes, s \in Sides : nodes[a][s] = conn(a, s)

\* C3 (Spec).  A link(a, sa, b, sb) call on populated a and b with slot
\* (a, sa) or slot (b, sb) occupied returns false and leaves every slot
\* of every node as it was.
C3_LinkOccupiedFails ==
    [][op' = "link" =>
        \A a \in DOMAIN nodes, sa \in Sides, b \in DOMAIN nodes, sb \in Sides :
            ((occupied(a, sa) \/ occupied(b, sb)) /\ Link(a, sa, b, sb)) =>
                (ret' = "false" /\ nodes' = nodes)]_vars

\* Witness of C3: a link call has just returned false.
C3_Witness ==
    /\ op = "link" /\ ret = "false"
    /\ \E a \in DOMAIN nodes, s \in Sides : occupied(a, s)

\* C4 (Spec).  unlink(a, sa, b, sb) on populated a and b clears slots
\* (a, sa) and (b, sb) when (a, sa) holds exactly (b, sb) and (b, sb)
\* holds exactly (a, sa), and otherwise returns false and changes no slot.
C4_UnlinkExact ==
    [][op' = "unlink" =>
        \A a \in DOMAIN nodes, sa \in Sides, b \in DOMAIN nodes, sb \in Sides :
            Unlink(a, sa, b, sb) =>
                IF nodes[a][sa] = conn(b, sb) /\ nodes[b][sb] = conn(a, sa)
                THEN nodes' = store(store(nodes, a, sa, null), b, sb, null)
                ELSE ret' = "false" /\ nodes' = nodes]_vars

\* C10 (Spec).  A link or unlink call on populated nodes returns true when
\* it changed the two slots and false when it changed nothing, and
\* nothing else.
C10_SuccessFlag ==
    [][(op' \in {"link", "unlink"} /\ ret' # "TypeError") =>
        /\ ret' \in {"true", "false"}
        /\ (ret' = "false") <=> (nodes' = nodes)]_vars

\* The slot that next(d) reads on the cursor.
facing(d) == nodes[cursor.index][(d + cursor.turn) % NumSides]

stepped(d) ==
    \/ Step(d)
    \/ d = 0 /\ Right
    \/ d = 1 /\ Down
    \/ d = 2 /\ Left
    \/ d = 3 /\ Up

\* C5 (SpecAdd).  On a cursor (index, turn) of a populated node, next(d)
\* and the accessor numbered d read slot (d + turn) mod 4 of node index;
\* they return null when it is empty or names a position that is not
\* populated, and otherwise a cursor on the target index with turn
\* (targetSide + 2 - d + 4) mod 4.
C5_Next ==
    [][(op' \in {"next", "right", "down", "left", "up"}
            /\ cursor.node # undefined) =>
        \A d \in Sides :
            stepped(d) =>
                IF ~truthy(facing(d)) \/ ~populated(facing(d).num)
                THEN cursor' = nullCursor /\ ret' = "null"
                ELSE /\ cursor'.index = facing(d).num
                     /\ cursor'.turn = (facing(d).side + 2 - d + 4) % 4
                     /\ ret' = "cursor"]_vars

\* Witness of C5: a walk reached a node with a turn other than 0 from
\* which some direction faces a connection to a position that is not
\* populated.
C5_Witness ==
    /\ op \in {"next", "right", "down", "left", "up"}
    /\ ret = "cursor" /\ cursor.turn # 0
    /\ \E d \in Sides : truthy(facing(d)) /\ ~populated(facing(d).num)

\* C6 (SpecWalk).  Traversal inverse: for a link between (a, sa) and
\* (b, sb) and a cursor at a with turn t, the step in the direction d
\* with (d + t) mod 4 = sa followed by the step in direction (d + 2) mod 4
\* ends on a cursor at index a whose value is a's value.
C6_TraversalInverse ==
    \A a \in DOMAIN nodes, sa \in Sides, t \in Sides :
        LET c == nodes[a][sa]
            d == (sa - t + NumSides) % NumSides
            start == build(nodes, a, t)
            there == next(nodes, start, d)
            back == IF there = nullCursor THEN nullCursor
                    ELSE next(nodes, there, (d + 2) % NumSides)
        IN  (truthy(c) /\ populated(c.num)
                /\ nodes[c.num][c.side] = conn(a, sa)) =>
                /\ there # nullCursor
                /\ back # nullCursor
                /\ back.index = a
                /\ getValue(valuePool, back) = getValue(valuePool, start)

\* Witness of C6: the caller stepped over a link between two labelled
\* nodes that joins sides which are not opposite, and stands rotated on
\* the far node.
C6_Witness ==
    /\ op = "next" /\ ret = "cursor" /\ cursor.turn # 0
    /\ \E sb \in Sides :
          LET c == nodes[cursor.index][sb]
          IN  /\ truthy(c) /\ populated(c.num) /\ c.num # cursor.index
              /\ c.side # (sb + 2) % NumSides
              /\ nodes[c.num][c.side] = conn(cursor.index, sb)
              /\ getValue(valuePool, cursor) = demoValue(cursor.index)
              /\ poolGet(valuePool, c.num) = demoValue(c.num)

\* C7 (SpecDemo).  Four-node wraparound: once the script has wired and
\* labelled its four nodes and built the cursor at node 0, every cursor it
\* reaches has a node in each of the four directions and a value among
\* "node 0" .. "node 3".
C7_Wraparound ==
    pc \in {"loop", "done", "crashed"} =>
        /\ cursor # nullCursor
        /\ \A d \in Sides : next(nodes, cursor, d) # nullCursor
        /\ getValue(valuePool, cursor)
              \in {demoValue(k) : k \in 0 .. (DemoNodes - 1)}

\* The value read through a cursor built at index k with turn t.
valueAt(ns, pool, k, t) == getValue(pool, build(ns, k, t))

\* C8 (SpecValue).  After setValue(k, v) on a populated k, build(k, t)
\* reads v for every turn t, whatever was stored before, and the other
\* nodes read what they read before; what a node reads changes only in a
\* call that sets a value (setValue, a cursor's setter, add with a
\* value), so a node nothing was set on reads absent.
C8_SetValue ==
    [][/\ op' = "setValue" =>
            \A k \in DOMAIN nodes, v \in Values :
                SetValue(k, v) =>
                    \A j \in DOMAIN nodes, t \in Sides :
                        valueAt(nodes', valuePool', j, t) =
                            IF j = k THEN v
                            ELSE valueAt(nodes, valuePool, j, t)
       /\ op' \notin {"setValue", "value=", "add"} =>
            \A j \in DOMAIN nodes', t \in Sides :
                valueAt(nodes', valuePool', j, t) =
                    IF j \in DOMAIN nodes THEN valueAt(nodes, valuePool, j, t)
                    ELSE undefined]_vars

\* Witness of C8: of two nodes, one was set twice by index and reads the
\* second value, the other was never set and reads absent.
C8_Witness ==
    /\ op = "setValue" /\ calls = 2 /\ cursor = nullCursor /\ length = 2
    /\ DOMAIN valuePool = {0}
    /\ valueAt(nodes, valuePool, 0, 1) = 2
    /\ valueAt(nodes, valuePool, 1, 3) = undefined

\* C9 (SpecValue).  A value written through the setter of a cursor bound
\* to node k, and not replaced since, is what the getter of every cursor
\* bound to node k afterwards returns.
C9_SetterVisible ==
    (lastPut # noPut /\ cursor # nullCursor /\ cursor.index = lastPut.index)
        => getValue(valuePool, cursor) = lastPut.value

\* Witness of C9: the caller wrote through a cursor, walked away and came
\* back over a link to the node it wrote to.
C9_Witness ==
    /\ op = "next" /\ ret = "cursor" /\ calls = 4
    /\ lastPut # noPut /\ cursor.index = lastPut.index
    /\ getValue(valuePool, cursor) \in Values

\* What next(d) returns to a cursor built at index 0 with turn 0 is null.
cornerNull(ns, d) == next(ns, build(ns, 0, 0), d) = nullCursor

\* C11 as stated: for every width and height of at least 1, the cursor
\* built at index 0 with turn 0 on grid(width, height) gets null from next
\* toward the two outward sides (2 and 3) and a cursor toward the two
\* inward sides (0 and 1).
C11_GridBoundary ==
    [][op' = "grid" =>
        \A width \in 1 .. GridDim, height \in 1 .. GridDim :
            GridCall(width, height) =>
                /\ cornerNull(nodes', 2) /\ cornerNull(nodes', 3)
                /\ ~cornerNull(nodes', 0) /\ ~cornerNull(nodes', 1)]_vars

\* C11 amended: the cursor built at index 0 with turn 0 on
\* grid(width, height) gets null from next toward sides 2 and 3 for every
\* width and height of at least 1; next(1) returns a cursor exactly when
\* width >= 2 and next(0) exactly when height >= 2, so the two-and-two
\* pattern holds for width, height >= 2 only.
C11_GridBoundaryFrom2 ==
    [][op' = "grid" =>
        \A width \in 1 .. GridDim, height \in 1 .. GridDim :
            GridCall(width, height) =>
                /\ cornerNull(nodes', 2) /\ cornerNull(nodes', 3)
                /\ (cornerNull(nodes', 1) <=> width < 2)
                /\ (cornerNull(nodes', 0) <=> height < 2)]_vars

C11_Witness ==
    /\ op = "grid"
    /\ length >= 4
    /\ cornerNull(nodes, 2) /\ cornerNull(nodes, 3)
    /\ ~cornerNull(nodes, 0) /\ ~cornerNull(nodes, 1)

\* C12: setValue(index, value) with an index that is not a populated node
\* fails (it does not return normally), leaves the value pool as it was,
\* and no cursor built afterwards reads the value.
C12_SetValueOutOfRange ==
    [][op' = "setValue" =>
        \A index \in Indices, value \in Values :
            (~populated(index) /\ SetValue(index, value)) =>
                /\ ret' # "undefined"
                /\ valuePool' = valuePool
                /\ \A k \in Indices, t \in Sides :
                       valueAt(nodes', valuePool', k, t) # value]_vars

\* C13: build(index, turn) with an index that is not a populated node
\* fails: the caller gets no cursor.
C13_BuildOutOfRange ==
    [][op' = "build" =>
        \A index \in Indices, turn \in Sides :
            (~populated(index) /\ Build(index, turn)) =>
                (ret' # "cursor" /\ cursor' = cursor)]_vars

Navigation == {"next", "right", "down", "left", "up"}

\* C14: next(d) and the accessors are read-only: a navigation call changes
\* no slot of any node, no entry of the value pool and not the number of
\* nodes, and the cursor it is called on keeps its index, node and turn;
\* the call only returns a cursor or null.
C14_ReadOnly ==
    [][op' \in Navigation =>
        /\ nodes' = nodes
        /\ valuePool' = valuePool
        /\ length' = length
        /\ \A name \in Navigation, d \in Sides :
               Look(name, d) =>
                   (cursor' = cursor /\ ret' \in {"cursor", "null", "TypeError"})]_vars

C14_Witness ==
    /\ op \in Navigation
    /\ ret = "null"
    /\ cursor # nullCursor
    /\ cursor.node # undefined
    /\ valuePool # emptyMap
    /\ \E index \in DOMAIN nodes, side \in Sides : occupied(index, side)

\* The slot the claim gives to side `side` of the node at column i, row j
\* (index = i + j * width) of a grid.
gridSlot(width, height, index, side) ==
    LET i == index % width
        j == index \div width
    IN  CASE side = 1 -> IF i < width - 1 THEN conn(index + 1, 3) ELSE null
          [] side = 3 -> IF i > 0 THEN conn(index - 1, 1) ELSE null
          [] side = 0 -> IF j < height - 1 THEN conn(index + width, 2) ELSE null
          [] side = 2 -> IF j > 0 THEN conn(index - width, 0) ELSE null

C16_CursorInRange ==
    (cursor # nullCursor /\ cursor.node # undefined) =>
        /\ cursor.turn \in Sides
        /\ populated(cursor.index)
        /\ cursor.node = cursor.index
        /\ \A d \in Sides :
               LET found == next(nodes, cursor, d)
               IN  found # nullCursor =>
                       (found.turn \in Sides /\ populated(found.index))

C16_Witness ==
    /\ op \in Navigation
    /\ ret = "cursor"
    /\ cursor.turn \in Sides \ {0}
    /\ populated(cursor.index)
    /\ \E d \in Sides : next(nodes, cursor, d) # nullCursor

\* C17: a link or unlink call that succeeds changes only the two slots
\* (firstIndex, firstSide) and (secondIndex, secondSide) it names: every
\* other slot of every node, the number of nodes and every stored value
\* are as before.
C17_LinkFrame ==
    [][(op' \in {"link", "unlink"} /\ ret' = "undefined") =>
        \A a \in Indices, sa \in Sides, b \in Indices, sb \in Sides :
            (IF op' = "link" THEN Link(a, sa, b, sb)
                             ELSE Unlink(a, sa, b, sb)) =>
                /\ DOMAIN nodes' = DOMAIN nodes
                /\ \A k \in DOMAIN nodes, s \in Sides :
                       (<<k, s>> \notin {<<a, sa>>, <<b, sb>>}) =>
                           nodes'[k][s] = nodes[k][s]
                /\ valuePool' = valuePool]_vars

C17_Witness ==
    /\ op = "unlink"
    /\ ret = "undefined"
    /\ length = MaxNodes
    /\ DOMAIN valuePool = DOMAIN nodes
    /\ \E index \in DOMAIN nodes, side \in Sides : occupied(index, side)

\* link(a, sa, b, sb), then unlink(a, sa, b, sb), then link(a, sa, b, sb)
\* called from the current state, each on the nodes the call before it
\* left.
roundTrip(a, sa, b, sb) ==
    LET linked == link(nodes, a, sa, b, sb)
        unlinked == unlink(linked.nodes, a, sa, b, sb)
        again == link(unlinked.nodes, a, sa, b, sb)
    IN  [linked |-> linked, unlinked |-> unlinked, again |-> again]

\* C18: when link(a, sa, b, sb) succeeds, unlink(a, sa, b, sb) called right
\* after it takes effect and leaves every slot of every node as it was
\* before the link, and the same link called after that succeeds again,
\* with the result of the first.
C18_RoundTrip ==
    \A a \in Indices, sa \in Sides, b \in Indices, sb \in Sides :
        LET r == roundTrip(a, sa, b, sb)
        IN  r.linked.ret = "undefined" =>
                /\ r.unlinked.ret = "undefined"
                /\ r.unlinked.nodes = nodes
                /\ r.again = r.linked

\* A link followed by its unlink has just brought a two-node graph back
\* to the state before the link, from which the link can be repeated.
C18_Witness ==
    /\ op = "unlink"
    /\ ret = "undefined"
    /\ length = MaxNodes
    /\ \A index \in DOMAIN nodes : nodes[index] = emptyNode
    /\ roundTrip(0, 1, 1, 3).again.ret = "undefined"

\* C19: on a graph that satisfies Symmetry, when c.next(d) returns a
\* cursor c2, c2.next((d + 2) mod 4) returns a cursor with the index and
\* the turn of c (and so the same node).
C19_InverseCursor ==
    C1_Symmetry =>
        \A a \in DOMAIN nodes, t \in Sides, d \in Sides :
            LET c == build(nodes, a, t)
                c2 == next(nodes, c, d)
            IN  c2 # nullCursor =>
                    next(nodes, c2, (d + 2) % NumSides) = c

\* The caller has walked, through an accessor, onto a cursor of a
\* symmetric graph from which some step changes the turn and the opposite
\* step leads back.
C19_Witness ==
    /\ op \in Navigation \ {"next"}
    /\ ret = "cursor"
    /\ C1_Symmetry
    /\ \E d \in Sides :
          LET c2 == next(nodes, cursor, d)
          IN  /\ c2 # nullCursor
              /\ c2.index # cursor.index
              /\ c2.turn # cursor.turn
              /\ next(nodes, c2, (d + 2) % NumSides) = cursor

\* Every connection of the graph names the side opposite to the slot that
\* holds it.
oppositeSides ==
    \A k \in DOMAIN nodes, s \in Sides :
        occupied(k, s) => nodes[k][s].side = (s + 2) % NumSides

====
